---- MODULE Spec2Model ----
(***************************************************************************)
(* Model of thinking-ant-social-media-calendar.py: the disk cache of       *)
(* search responses, search_web_async, the token budgeter, the prompt      *)
(* formatter, the run orchestrator and the part of main that persists the  *)
(* artifact.                                                               *)
(*                                                                         *)
(* Strings that the program only measures (title, link, snippet) are       *)
(* modelled by their length in characters.  A query is the tuple of the    *)
(* pieces its f-string concatenates.                                       *)
(***************************************************************************)
EXTENDS Integers, Sequences, FiniteSets, TLC

\* ------------------------------------------------------------------ bounds
\* Concurrent direct callers of search_web_async (specification SpecSearch).
NumCallers == 2
\* Concurrent form submissions running main (specification Spec).
NumSessions == 1
\* Budgeter inputs (specification SpecFilter): results per query, and the
\* largest max_tokens tried.
MaxResultsPerQuery == 3
MaxBudget == 14

\* ------------------------------------------------------- program constants
num_results == 5
default_max_tokens == 800
chars_per_token == 4
snippet_cut == 150

Max2(a, b) == IF a >= b THEN a ELSE b
Procs == 1 .. Max2(NumCallers, NumSessions)
Callers == 1 .. NumCallers
Sessions == 1 .. NumSessions

\* ---------------------------------------------------------------- queries
\* datetime.now().year, as interpolated in the three query templates.
Year == "2026"

industry_query(industry) == <<"latest trends in", industry, "industry", Year>>
audience_query(target_audience) == <<"content marketing for", target_audience, Year>>
goals_query(content_goals) == <<content_goals, "content strategy examples", Year>>

\* Form inputs; "" is a field left blank.
Industries == {"", "Fitness"}
Audiences == {"", "busy professionals"}
Goals == {"", "increase engagement"}

search_queries(industry, target_audience, content_goals) ==
  << industry_query(industry), audience_query(target_audience), goals_query(content_goals) >>

AllQueries ==
  {industry_query("Fitness"), audience_query("busy professionals"),
   goals_query("increase engagement")}

\* The lists the direct callers of SpecSearch pass: the sub-lists of
\* BatchBase, in its order, the empty list included.
BatchBase == << industry_query("Fitness"), audience_query("busy professionals") >>
BatchLists ==
  { SelectSeq(BatchBase, LAMBDA q : q \in T) : T \in SUBSET { BatchBase[i] : i \in DOMAIN BatchBase } }

\* ------------------------------------------------------------ cache files
\* hashlib.md5(query.encode()).hexdigest(): a deterministic digest of the
\* query text; distinct queries of the model have distinct digests.
get_cache_key(query) == <<"md5", query>>
cache_file(query) == <<"cache", get_cache_key(query), ".pkl">>
CacheFiles == { cache_file(q) : q \in AllQueries }

\* A cache file is absent, opened for writing and still empty ("partial"),
\* or holds a pickled result list ("written").
AbsentFile == [state |-> "absent", data |-> <<>>]
PartialFile == [state |-> "partial", data |-> <<>>]
WrittenFile(results) == [state |-> "written", data |-> results]

\* Faulty variant: the cache is never consulted.
path_exists_always_false(files, query) == FALSE
\* os.path.exists(cache_file)
path_exists(files, query) == files[cache_file(query)].state # "absent"

\* pickle.load succeeds on a completely written file only (an empty file
\* raises EOFError).
pickle_loads(files, query) == files[cache_file(query)].state = "written"

\* ----------------------------------------------------------- search backend
RawResult(t, l, s) == [title |-> t, link |-> l, snippet |-> s]
\* The "organic_results" array of a successful response: six entries, the
\* second without a snippet.
OrganicResults ==
  << RawResult(12, 20, 40), [title |-> 8, link |-> 16], RawResult(4, 8, 160),
     RawResult(1, 2, 3), RawResult(10, 10, 10), RawResult(7, 7, 7) >>

Response200 == [raises |-> FALSE, status |-> 200, has_organic |-> TRUE]
Response200NoOrganic == [raises |-> FALSE, status |-> 200, has_organic |-> FALSE]
Response500 == [raises |-> FALSE, status |-> 500, has_organic |-> FALSE]
ResponseRaises == [raises |-> TRUE, status |-> 0, has_organic |-> FALSE]
\* The responses the backend may give to a query; only the goals query is
\* ever answered without an "organic_results" key.
ResponsesFor(query) ==
  {Response200, Response500, ResponseRaises}
    \cup (IF query = goals_query("increase engagement") THEN {Response200NoOrganic} ELSE {})
FailedResponse(resp) == resp.raises \/ resp.status # 200

\* result.get(field, ""): the length of the field, 0 for the default "".
dict_get(raw, field) == IF field \in DOMAIN raw THEN raw[field] ELSE 0

Prefix(s, n) == SubSeq(s, 1, IF Len(s) < n THEN Len(s) ELSE n)

extract_organic(raws) ==
  [ i \in 1 .. Len(Prefix(raws, num_results)) |->
      [title |-> dict_get(raws[i], "title"), link |-> dict_get(raws[i], "link"),
       snippet |-> dict_get(raws[i], "snippet")] ]

\* Faulty variant: the failure escapes the coroutine instead of being swallowed.
on_failed_fetch_propagates(query) == [query |-> query, results |-> <<>>, raised |-> TRUE]
\* The else branch (line 59) and the except branch (line 61) of
\* fetch_search_results: the failure is swallowed, the results are empty.
on_failed_fetch(query) == [query |-> query, results |-> <<>>, raised |-> FALSE]

\* What the coroutine hands to asyncio.gather; raised says whether an
\* exception left the coroutine.
fetch_search_results(query, resp) ==
  IF resp.raises THEN on_failed_fetch(query)
  ELSE IF resp.status = 200
       THEN [query |-> query,
             results |-> IF resp.has_organic THEN extract_organic(OrganicResults) ELSE <<>>,
             raised |-> FALSE]
       ELSE on_failed_fetch(query)

\* ------------------------------------------------------------ Python dicts
\* A dict is the sequence of its items in insertion order.
dict_keys(d) == [ i \in 1 .. Len(d) |-> d[i].key ]
dict_has(d, k) == \E i \in 1 .. Len(d) : d[i].key = k
dict_lookup(d, k, default) ==
  IF dict_has(d, k) THEN d[CHOOSE i \in 1 .. Len(d) : d[i].key = k].value ELSE default
dict_set(d, k, v) ==
  IF dict_has(d, k)
  THEN [ i \in 1 .. Len(d) |-> IF d[i].key = k THEN [key |-> k, value |-> v] ELSE d[i] ]
  ELSE Append(d, [key |-> k, value |-> v])

RECURSIVE dict_from_keys(_, _, _)
\* {k: f[k] for k in keys}, with default for keys outside DOMAIN f
dict_from_keys(keys, d, default) ==
  IF keys = <<>> THEN <<>>
  ELSE dict_set(dict_from_keys(SubSeq(keys, 1, Len(keys) - 1), d, default),
                keys[Len(keys)], dict_lookup(d, keys[Len(keys)], default))

\* Faulty variant: the dict built during the call is returned as it is.
return_in_cache_order(qs, cached) == cached
\* line 97: {query: cached_results.get(query, []) for query in queries}
search_return(qs, cached) == dict_from_keys(qs, cached, <<>>)

\* ---------------------------------------------------------- token budget
\* line 114: f"{title}\n{snippet}\nSource: {link}\n\n", by length.
result_text_len(result) == result.title + 1 + result.snippet + 9 + result.link + 2

\* line 102: len(text) // 4
estimate_tokens(text_len) == text_len \div chars_per_token

result_tokens(result) == estimate_tokens(result_text_len(result))

\* Faulty variant: the test leaves out the result about to be added.
within_budget_ignoring_result(current_tokens, tokens, max_tokens) == current_tokens <= max_tokens
\* line 118
within_budget(current_tokens, tokens, max_tokens) == current_tokens + tokens <= max_tokens

RECURSIVE filter_query(_, _, _)
\* Faulty variant: continue instead of break, later results are still tried.
on_reject_continue(rest, current_tokens, max_tokens) == filter_query(rest, current_tokens, max_tokens)
\* lines 121-122: the first result over budget ends the query's loop.
on_reject(rest, current_tokens, max_tokens) == [kept |-> <<>>, tokens |-> current_tokens]

\* lines 110-122 for one query: the results kept and the running total.
filter_query(query_results, current_tokens, max_tokens) ==
  IF query_results = <<>> THEN [kept |-> <<>>, tokens |-> current_tokens]
  ELSE LET result == Head(query_results)
           tokens == result_tokens(result)
       IN IF within_budget(current_tokens, tokens, max_tokens)
          THEN LET rest == filter_query(Tail(query_results), current_tokens + tokens, max_tokens)
               IN [kept |-> <<result>> \o rest.kept, tokens |-> rest.tokens]
          ELSE on_reject(Tail(query_results), current_tokens, max_tokens)

RECURSIVE filter_queries(_, _, _)
\* lines 109-128 from some query on.
filter_queries(items, current_tokens, max_tokens) ==
  IF items = <<>> THEN [filtered |-> <<>>, tokens |-> current_tokens]
  ELSE LET fq == filter_query(Head(items).value, current_tokens, max_tokens)
           entry == [key |-> Head(items).key, value |-> fq.kept]
       IN IF fq.tokens >= max_tokens
          THEN [filtered |-> <<entry>>, tokens |-> fq.tokens]
          ELSE LET rest == filter_queries(Tail(items), fq.tokens, max_tokens)
               IN [filtered |-> <<entry>> \o rest.filtered, tokens |-> rest.tokens]

\* filter_search_results(results, max_tokens) on a dict with distinct keys.
filter_search_results(results, max_tokens) == filter_queries(results, 0, max_tokens)

\* -------------------------------------------------------- prompt research
Min2(a, b) == IF a <= b THEN a ELSE b

\* lines 140-141: "{i+1}. {title}\n   {snippet[:150]}...\n\n", by length of
\* the two fields shown.
format_items(results) ==
  [ i \in 1 .. Len(results) |->
      [index |-> i, title |-> results[i].title,
       snippet |-> Min2(results[i].snippet, snippet_cut)] ]

\* One labelled section, or nothing when the query is missing or empty.
format_section(results, query, label) ==
  IF dict_has(results, query) /\ dict_lookup(results, query, <<>>) # <<>>
  THEN << [label |-> label, items |-> format_items(dict_lookup(results, query, <<>>))] >>
  ELSE <<>>

\* format_search_results: the header and the sections in the fixed order.
format_search_results(results, industry, target_audience, content_goals) ==
  << [label |-> "RECENT WEB SEARCH RESULTS", items |-> <<>>] >>
    \o format_section(results, industry_query(industry), "INDUSTRY TRENDS")
    \o format_section(results, audience_query(target_audience), "CONTENT FOR")
    \o format_section(results, goals_query(content_goals), "STRATEGIES FOR")

\* ------------------------------------------------- result of a run, main
NoResult == [kind |-> "none", keys |-> {}]
\* line 262: the string "Error: ..."
ErrorResult == [kind |-> "str", keys |-> {}]
\* lines 251-260
RunResult == [kind |-> "dict", keys |-> {"result", "execution_time", "tokens", "estimated_cost"}]

\* Faulty variant: main does not tell the error string from the record.
main_accepts_anything(result) == TRUE
\* line 330: isinstance(result, dict) and 'result' in result
main_accepts(result) == result.kind = "dict" /\ "result" \in result.keys

\* ------------------------------------------------------------------ state
VARIABLES
  cache,             \* the files of cache/: cache file -> state and content
  pc,                \* where each caller or session stands
  queries,           \* search_web_async: its argument
  idx,               \* search_web_async: position of the loop of lines 69-77
  cached_results,    \* search_web_async: the dict of line 66
  queries_to_fetch,  \* search_web_async: the list of line 67
  fetched_results,   \* search_web_async: what asyncio.gather returned
  widx,              \* search_web_async: position of the loop of lines 86-94
  search_results,    \* the value search_web_async returned
  requests,          \* history: the queries sent to the search backend
  fetch_failed,      \* history: the queries whose response was a failure
  resident_at_start, \* history: the queries that had a cache file at the call
  load_failed,       \* history: the query whose pickle.load raised
  events,            \* history: what each caller or session has done, in order
  inputs,            \* main: the submitted form fields
  progress_bar,      \* main: the value shown by st.progress
  filtered_results,  \* run_content_calendar_creation: line 183
  formatted,         \* run_content_calendar_creation: line 184
  run_result,        \* what run_content_calendar_creation returned
  f_results,         \* filter_search_results: its argument results
  f_max,             \* filter_search_results: its argument max_tokens
  f_pc,              \* filter_search_results: where it stands
  f_q,               \* filter_search_results: position of the loop of line 109
  f_r,               \* filter_search_results: position of the loop of line 112
  f_current,         \* filter_search_results: current_tokens
  f_query_results,   \* filter_search_results: filtered_query_results
  f_filtered,        \* filter_search_results: filtered_results
  f_out              \* filter_search_results: the returned pair

searchVars ==
  << cache, pc, queries, idx, cached_results, queries_to_fetch, fetched_results,
     widx, search_results, requests, fetch_failed, resident_at_start, load_failed, events >>

runVars == << inputs, progress_bar, filtered_results, formatted, run_result >>

filterVars ==
  << f_results, f_max, f_pc, f_q, f_r, f_current, f_query_results, f_filtered, f_out >>

vars == << searchVars, runVars, filterVars >>

Log(p, e) == events' = [events EXCEPT ![p] = Append(@, e)]
Logged(p, e) == \E i \in DOMAIN events[p] : events[p][i] = e

InitSearchLocals ==
  /\ queries = [p \in Procs |-> <<>>]
  /\ idx = [p \in Procs |-> 1]
  /\ cached_results = [p \in Procs |-> <<>>]
  /\ queries_to_fetch = [p \in Procs |-> <<>>]
  /\ fetched_results = [p \in Procs |-> <<>>]
  /\ widx = [p \in Procs |-> 1]
  /\ search_results = [p \in Procs |-> <<>>]
  /\ requests = [p \in Procs |-> <<>>]
  /\ fetch_failed = [p \in Procs |-> {}]
  /\ resident_at_start = [p \in Procs |-> {}]
  /\ load_failed = [p \in Procs |-> {}]
  /\ events = [p \in Procs |-> <<>>]

\* ------------------------------------------------------- search_web_async
\* The call: lines 66-67 initialise the two locals.
EnterSearch(p, qs) ==
  /\ queries' = [queries EXCEPT ![p] = qs]
  /\ idx' = [idx EXCEPT ![p] = 1]
  /\ cached_results' = [cached_results EXCEPT ![p] = <<>>]
  /\ queries_to_fetch' = [queries_to_fetch EXCEPT ![p] = <<>>]
  /\ fetched_results' = [fetched_results EXCEPT ![p] = <<>>]
  /\ widx' = [widx EXCEPT ![p] = 1]
  /\ search_results' = [search_results EXCEPT ![p] = <<>>]
  /\ requests' = [requests EXCEPT ![p] = <<>>]
  /\ fetch_failed' = [fetch_failed EXCEPT ![p] = {}]
  /\ load_failed' = [load_failed EXCEPT ![p] = {}]
  /\ resident_at_start' =
       [resident_at_start EXCEPT
          ![p] = { qs[i] : i \in { j \in 1 .. Len(qs) : cache[cache_file(qs[j])].state # "absent" } }]
  /\ pc' = [pc EXCEPT ![p] = "check"]
  /\ Log(p, "search_called")
  /\ UNCHANGED cache

InLoop(p) == pc[p] = "check" /\ idx[p] <= Len(queries[p])
CurrentQuery(p) == queries[p][idx[p]]

\* lines 73-75: the file exists and unpickles.
CacheHit(p) ==
  /\ InLoop(p)
  /\ path_exists(cache, CurrentQuery(p))
  /\ pickle_loads(cache, CurrentQuery(p))
  /\ cached_results' =
       [cached_results EXCEPT
          ![p] = dict_set(@, CurrentQuery(p), cache[cache_file(CurrentQuery(p))].data)]
  /\ idx' = [idx EXCEPT ![p] = @ + 1]
  /\ UNCHANGED << cache, pc, queries, queries_to_fetch, fetched_results, widx,
                  search_results, requests, fetch_failed, resident_at_start, load_failed, events >>
  /\ UNCHANGED << runVars, filterVars >>

\* lines 73-75: the file exists but pickle.load raises; nothing in
\* search_web_async catches it, so the call ends with the exception.
CacheLoadFails(p) ==
  /\ InLoop(p)
  /\ path_exists(cache, CurrentQuery(p))
  /\ ~pickle_loads(cache, CurrentQuery(p))
  /\ load_failed' = [load_failed EXCEPT ![p] = {CurrentQuery(p)}]
  /\ pc' = [pc EXCEPT ![p] = "raised"]
  /\ UNCHANGED << cache, queries, idx, cached_results, queries_to_fetch, fetched_results,
                  widx, search_results, requests, fetch_failed, resident_at_start, events >>
  /\ UNCHANGED << runVars, filterVars >>

\* lines 76-77
CacheMiss(p) ==
  /\ InLoop(p)
  /\ ~path_exists(cache, CurrentQuery(p))
  /\ queries_to_fetch' = [queries_to_fetch EXCEPT ![p] = Append(@, CurrentQuery(p))]
  /\ idx' = [idx EXCEPT ![p] = @ + 1]
  /\ UNCHANGED << cache, pc, queries, cached_results, fetched_results, widx,
                  search_results, requests, fetch_failed, resident_at_start, load_failed, events >>
  /\ UNCHANGED << runVars, filterVars >>

LoopDone(p) == pc[p] = "check" /\ idx[p] > Len(queries[p])

\* lines 80-83: one request per query of queries_to_fetch, all awaited by
\* asyncio.gather, which returns the results in task order.
FetchAll(p) ==
  /\ LoopDone(p)
  /\ queries_to_fetch[p] # <<>>
  /\ \E resps \in { r \in [1 .. Len(queries_to_fetch[p])
                              -> UNION { ResponsesFor(q) : q \in AllQueries }] :
                     \A i \in DOMAIN r : r[i] \in ResponsesFor(queries_to_fetch[p][i]) } :
       LET got == [ i \in 1 .. Len(queries_to_fetch[p]) |->
                      fetch_search_results(queries_to_fetch[p][i], resps[i]) ]
       IN /\ fetched_results' = [fetched_results EXCEPT ![p] = got]
          /\ requests' = [requests EXCEPT ![p] = queries_to_fetch[p]]
          /\ fetch_failed' =
               [fetch_failed EXCEPT
                  ![p] = { queries_to_fetch[p][i] :
                             i \in { j \in DOMAIN resps : FailedResponse(resps[j]) } }]
          /\ pc' = [pc EXCEPT
                      ![p] = IF \E i \in DOMAIN got : got[i].raised
                             THEN "raised" ELSE "update_cache"]
  /\ widx' = [widx EXCEPT ![p] = 1]
  /\ UNCHANGED << cache, queries, idx, cached_results, queries_to_fetch, search_results,
                  resident_at_start, load_failed, events >>
  /\ UNCHANGED << runVars, filterVars >>

Writing(p) == fetched_results[p][widx[p]]

\* line 91: open(cache_file, 'wb') creates or truncates the file.
WriteOpen(p) ==
  /\ pc[p] = "update_cache"
  /\ widx[p] <= Len(fetched_results[p])
  /\ cache' = [cache EXCEPT ![cache_file(Writing(p).query)] = PartialFile]
  /\ pc' = [pc EXCEPT ![p] = "dump"]
  /\ UNCHANGED << queries, idx, cached_results, queries_to_fetch, fetched_results, widx,
                  search_results, requests, fetch_failed, resident_at_start, load_failed, events >>
  /\ UNCHANGED << runVars, filterVars >>

\* lines 92-94: pickle.dump, the file is closed, the dict is updated.
WriteDump(p) ==
  /\ pc[p] = "dump"
  /\ cache' = [cache EXCEPT ![cache_file(Writing(p).query)] = WrittenFile(Writing(p).results)]
  /\ cached_results' =
       [cached_results EXCEPT ![p] = dict_set(@, Writing(p).query, Writing(p).results)]
  /\ widx' = [widx EXCEPT ![p] = @ + 1]
  /\ pc' = [pc EXCEPT ![p] = "update_cache"]
  /\ UNCHANGED << queries, idx, queries_to_fetch, fetched_results,
                  search_results, requests, fetch_failed, resident_at_start, load_failed, events >>
  /\ UNCHANGED << runVars, filterVars >>

\* line 97, reached with nothing to fetch (line 80) or after the last write.
SearchReturn(p) ==
  /\ \/ LoopDone(p) /\ queries_to_fetch[p] = <<>>
     \/ pc[p] = "update_cache" /\ widx[p] > Len(fetched_results[p])
  /\ search_results' = [search_results EXCEPT ![p] = search_return(queries[p], cached_results[p])]
  /\ pc' = [pc EXCEPT ![p] = "returned"]
  /\ Log(p, "search_returned")
  /\ UNCHANGED << cache, queries, idx, cached_results, queries_to_fetch, fetched_results,
                  widx, requests, fetch_failed, resident_at_start, load_failed >>
  /\ UNCHANGED << runVars, filterVars >>

\* ------------------------------------------- SpecSearch: direct callers
\* A caller invokes search_web_async on a list of distinct queries.
CallSearch(p) ==
  /\ pc[p] = "idle"
  /\ \E qs \in BatchLists : EnterSearch(p, qs)
  /\ UNCHANGED << runVars, filterVars >>

InitRunLocals ==
  /\ inputs = [p \in Procs |-> <<>>]
  /\ progress_bar = [p \in Procs |-> 0]
  /\ filtered_results = [p \in Procs |-> <<>>]
  /\ formatted = [p \in Procs |-> <<>>]
  /\ run_result = [p \in Procs |-> NoResult]

InitFilterIdle ==
  /\ f_results = <<>>
  /\ f_max = 0
  /\ f_pc = "idle"
  /\ f_q = 1
  /\ f_r = 1
  /\ f_current = 0
  /\ f_query_results = <<>>
  /\ f_filtered = <<>>
  /\ f_out = [filtered |-> <<>>, tokens |-> 0]

\* The cache directory as os.makedirs leaves it on a first start: empty.
InitSearch ==
  /\ cache = [f \in CacheFiles |-> AbsentFile]
  /\ pc = [p \in Procs |-> "idle"]
  /\ InitSearchLocals
  /\ InitRunLocals
  /\ InitFilterIdle

NextSearch ==
  \E p \in Callers :
    \/ CallSearch(p)
    \/ CacheHit(p)
    \/ CacheLoadFails(p)
    \/ CacheMiss(p)
    \/ FetchAll(p)
    \/ WriteOpen(p)
    \/ WriteDump(p)
    \/ SearchReturn(p)

SpecSearch == InitSearch /\ [][NextSearch]_vars

\* ------------------------------------------------- properties of the search
Range(s) == { s[i] : i \in DOMAIN s }
Count(s, x) == Cardinality({ i \in DOMAIN s : s[i] = x })
FetchedFor(p, q) ==
  fetched_results[p][CHOOSE i \in DOMAIN queries_to_fetch[p] : queries_to_fetch[p][i] = q]

\* C1: whenever search_web_async returns, the keys of the returned mapping
\* are exactly the queries of its argument, in the argument's order, whatever
\* was cache-resident and however the fetches ended.
C1_ReturnCoversQueriesInOrder ==
  \A p \in Procs : pc[p] = "returned" => dict_keys(search_results[p]) = queries[p]

\* C1 witness: a call returned whose first query was fetched (and failed)
\* while a later one was a cache hit, so the dict built during the call is
\* in another order than the argument.
C1_Witness ==
  \E p \in Procs :
    /\ pc[p] = "returned"
    /\ Len(queries[p]) = 2
    /\ queries[p][1] \in fetch_failed[p]
    /\ queries[p][2] \in resident_at_start[p]
    /\ dict_keys(cached_results[p]) # queries[p]

\* C2: a query that had a cache file when the search was called is sent to
\* the search backend zero times by that search.
C2_ResidentNeverRequested ==
  \A p \in Procs : \A q \in resident_at_start[p] : Count(requests[p], q) = 0

\* C2 witness: a call returned that found one query resident and fetched
\* another.
C2_Witness ==
  \E p \in Procs :
    /\ pc[p] = "returned"
    /\ resident_at_start[p] # {}
    /\ requests[p] # <<>>

\* C6 as claimed: once a cache file holds a pickled entry it is never
\* written again.
C6_EntryNeverRewritten ==
  [][\A f \in CacheFiles : cache[f].state = "written" => cache'[f] = cache[f]]_vars

\* C7: a failed fetch resolves to the empty list for its own query only: the
\* search does not raise once requests were sent, and on return every failed
\* query maps to [], every other fetched query to what its fetch produced,
\* and every cache hit to what was read from its file.
C7_FetchFailureIsolated ==
  \A p \in Procs :
    /\ requests[p] # <<>> => pc[p] # "raised"
    /\ pc[p] = "returned" =>
         \A q \in Range(queries[p]) :
           /\ q \in fetch_failed[p] => dict_lookup(search_results[p], q, <<"none">>) = <<>>
           /\ q \in Range(queries_to_fetch[p]) =>
                dict_lookup(search_results[p], q, <<"none">>) = FetchedFor(p, q).results
           /\ q \notin Range(queries_to_fetch[p]) =>
                dict_lookup(search_results[p], q, <<"none">>)
                  = dict_lookup(cached_results[p], q, <<"none">>)

\* C7 witness: a batch returned in which one fetch failed and another query
\* got a non-empty result list.
C7_Witness ==
  \E p \in Procs :
    /\ pc[p] = "returned"
    /\ fetch_failed[p] # {}
    /\ \E q \in Range(queries[p]) :
         q \notin fetch_failed[p] /\ dict_lookup(search_results[p], q, <<>>) # <<>>

\* C8 as claimed: a query whose cache file exists but fails to unpickle is
\* put on queries_to_fetch and the call does not end with the exception.
C8_LoadFailureTreatedAsMiss ==
  \A p \in Procs : \A q \in load_failed[p] :
    pc[p] # "raised" /\ q \in Range(queries_to_fetch[p])

\* C10 as claimed: once a search has returned, every query of its argument
\* has a cache file, and the file of a query whose fetch failed holds the
\* empty list.
C10_FailedFetchCachedAsEmpty ==
  \A p \in Procs :
    pc[p] = "returned" =>
      \A q \in Range(queries[p]) :
        /\ cache[cache_file(q)].state # "absent"
        /\ q \in fetch_failed[p] => cache[cache_file(q)] = WrittenFile(<<>>)

\* ---------------------------------- SpecFilter: filter_search_results alone
\* Two results: 12 characters of formatting only (3 tokens), and 31
\* characters in all (7 tokens, rounded down).
ResultPool == { [title |-> 0, link |-> 0, snippet |-> 0], [title |-> 5, link |-> 9, snippet |-> 5] }
ResultLists == UNION { [1 .. n -> ResultPool] : n \in 0 .. MaxResultsPerQuery }

\* The ResultSets tried: a dict over a BatchLists list of queries.
ResultSets ==
  UNION { { [ i \in 1 .. Len(qs) |-> [key |-> qs[i], value |-> vals[i]] ] :
              vals \in [1 .. Len(qs) -> ResultLists] } : qs \in BatchLists }

InitFilter ==
  /\ cache = [f \in CacheFiles |-> AbsentFile]
  /\ pc = [p \in Procs |-> "idle"]
  /\ InitSearchLocals
  /\ InitRunLocals
  /\ f_results \in ResultSets
  /\ f_max \in 0 .. MaxBudget
  /\ f_pc = "outer"
  /\ f_q = 1
  /\ f_r = 1
  /\ f_current = 0
  /\ f_query_results = <<>>
  /\ f_filtered = <<>>
  /\ f_out = [filtered |-> <<>>, tokens |-> 0]

FilterQueryResults == f_results[f_q].value

\* lines 109-110: the next query; its list of kept results starts empty.
FilterBeginQuery ==
  /\ f_pc = "outer"
  /\ f_q <= Len(f_results)
  /\ f_query_results' = <<>>
  /\ f_r' = 1
  /\ f_pc' = "inner"
  /\ UNCHANGED << f_results, f_max, f_q, f_current, f_filtered, f_out >>
  /\ UNCHANGED << searchVars, runVars >>

\* lines 114-120: the result fits the budget and is kept.
FilterAccept ==
  /\ f_pc = "inner"
  /\ f_r <= Len(FilterQueryResults)
  /\ within_budget(f_current, result_tokens(FilterQueryResults[f_r]), f_max)
  /\ f_query_results' = Append(f_query_results, FilterQueryResults[f_r])
  /\ f_current' = f_current + result_tokens(FilterQueryResults[f_r])
  /\ f_r' = f_r + 1
  /\ UNCHANGED << f_results, f_max, f_pc, f_q, f_filtered, f_out >>
  /\ UNCHANGED << searchVars, runVars >>

\* lines 121-122: the result does not fit; break out of the query's loop.
FilterReject ==
  /\ f_pc = "inner"
  /\ f_r <= Len(FilterQueryResults)
  /\ ~within_budget(f_current, result_tokens(FilterQueryResults[f_r]), f_max)
  /\ f_pc' = "store"
  /\ UNCHANGED << f_results, f_max, f_q, f_r, f_current, f_query_results, f_filtered, f_out >>
  /\ UNCHANGED << searchVars, runVars >>

\* line 112: the query's results are exhausted.
FilterQueryDone ==
  /\ f_pc = "inner"
  /\ f_r > Len(FilterQueryResults)
  /\ f_pc' = "store"
  /\ UNCHANGED << f_results, f_max, f_q, f_r, f_current, f_query_results, f_filtered, f_out >>
  /\ UNCHANGED << searchVars, runVars >>

\* lines 124-128: store the query's kept results; go on while under budget.
FilterStoreContinue ==
  /\ f_pc = "store"
  /\ ~(f_current >= f_max)
  /\ f_filtered' = dict_set(f_filtered, f_results[f_q].key, f_query_results)
  /\ f_q' = f_q + 1
  /\ f_pc' = "outer"
  /\ UNCHANGED << f_results, f_max, f_r, f_current, f_query_results, f_out >>
  /\ UNCHANGED << searchVars, runVars >>

\* lines 124-128: store the query's kept results; the budget is reached, break.
FilterStoreBreak ==
  /\ f_pc = "store"
  /\ f_current >= f_max
  /\ f_filtered' = dict_set(f_filtered, f_results[f_q].key, f_query_results)
  /\ f_pc' = "return"
  /\ UNCHANGED << f_results, f_max, f_q, f_r, f_current, f_query_results, f_out >>
  /\ UNCHANGED << searchVars, runVars >>

\* line 130
FilterReturn ==
  /\ \/ f_pc = "outer" /\ f_q > Len(f_results)
     \/ f_pc = "return"
  /\ f_out' = [filtered |-> f_filtered, tokens |-> f_current]
  /\ f_pc' = "done"
  /\ UNCHANGED << f_results, f_max, f_q, f_r, f_current, f_query_results, f_filtered >>
  /\ UNCHANGED << searchVars, runVars >>

NextFilter ==
  \/ FilterBeginQuery
  \/ FilterAccept
  \/ FilterReject
  \/ FilterQueryDone
  \/ FilterStoreContinue
  \/ FilterStoreBreak
  \/ FilterReturn

SpecFilter == InitFilter /\ [][NextFilter]_vars

\* ---------------------------------------------- properties of the budgeter
RECURSIVE SumTokens(_)
SumTokens(results) ==
  IF results = <<>> THEN 0 ELSE result_tokens(Head(results)) + SumTokens(Tail(results))

RECURSIVE Flatten(_)
\* The results of a dict's value lists, in one list.
Flatten(d) == IF d = <<>> THEN <<>> ELSE Head(d).value \o Flatten(Tail(d))

TotalRetained(d) == Len(Flatten(d))
FirstQueryRetained(d) == IF d = <<>> THEN 0 ELSE Len(d[1].value)

\* The step-by-step run and the operator compute the same pair.
FilterRunMatchesOperator ==
  f_pc = "done" => f_out = filter_search_results(f_results, f_max)

\* C3 as claimed: no smaller budget retains more results in total than the
\* budget of the finished run.
C3_TotalRetainedMonotone ==
  f_pc = "done" =>
    \A m \in 0 .. f_max :
      TotalRetained(filter_search_results(f_results, m).filtered) <= TotalRetained(f_out.filtered)

\* C3 amended: the number of results retained from the first query of the
\* ResultSet never decreases when max_tokens increases.
C3_FirstQueryRetainedMonotone ==
  f_pc = "done" =>
    \A m \in 0 .. MaxBudget :
      /\ m <= f_max =>
           FirstQueryRetained(filter_search_results(f_results, m).filtered)
             <= FirstQueryRetained(f_out.filtered)
      /\ m >= f_max =>
           FirstQueryRetained(f_out.filtered)
             <= FirstQueryRetained(filter_search_results(f_results, m).filtered)

\* C3 witness: a finished run for which some smaller budget retains more
\* results in total, while the first query's count is no larger.
C3_Witness ==
  /\ f_pc = "done"
  /\ \E m \in 0 .. f_max :
       /\ TotalRetained(filter_search_results(f_results, m).filtered)
            > TotalRetained(f_out.filtered)
       /\ FirstQueryRetained(filter_search_results(f_results, m).filtered)
            < FirstQueryRetained(f_out.filtered)

\* C4: at every point of filter_search_results the running total
\* current_tokens is the sum of the estimated tokens of the results retained
\* so far and does not exceed max_tokens; the returned total likewise.
C4_RunningTotalWithinBudget ==
  /\ f_current <= f_max
  /\ f_pc \in {"inner", "store"} =>
       f_current = SumTokens(Flatten(f_filtered)) + SumTokens(f_query_results)
  /\ f_pc \in {"outer", "return"} => f_current = SumTokens(Flatten(f_filtered))
  /\ f_pc = "done" =>
       /\ f_out.tokens = SumTokens(Flatten(f_out.filtered))
       /\ f_out.tokens <= f_max

\* C4 witness: a finished run that kept a result and turned another away
\* because it would have passed the ceiling.
C4_Witness ==
  /\ f_pc = "done"
  /\ f_out.tokens > 0
  /\ TotalRetained(f_out.filtered) < TotalRetained(f_results)
  /\ f_out.tokens < f_max

\* ------------------------------- Spec: form submissions running the pipeline
SearchLocalsUnchanged ==
  UNCHANGED << queries, idx, cached_results, queries_to_fetch, fetched_results, widx,
               search_results, requests, fetch_failed, resident_at_start, load_failed >>

\* The frame of run_content_calendar_creation and of the search it called
\* are gone once it has returned.
DropLocals(p) ==
  /\ queries' = [queries EXCEPT ![p] = <<>>]
  /\ idx' = [idx EXCEPT ![p] = 1]
  /\ cached_results' = [cached_results EXCEPT ![p] = <<>>]
  /\ queries_to_fetch' = [queries_to_fetch EXCEPT ![p] = <<>>]
  /\ fetched_results' = [fetched_results EXCEPT ![p] = <<>>]
  /\ widx' = [widx EXCEPT ![p] = 1]
  /\ search_results' = [search_results EXCEPT ![p] = <<>>]
  /\ requests' = [requests EXCEPT ![p] = <<>>]
  /\ fetch_failed' = [fetch_failed EXCEPT ![p] = {}]
  /\ resident_at_start' = [resident_at_start EXCEPT ![p] = {}]
  /\ load_failed' = [load_failed EXCEPT ![p] = {}]
  /\ filtered_results' = [filtered_results EXCEPT ![p] = <<>>]
  /\ formatted' = [formatted EXCEPT ![p] = <<>>]

FormInputs ==
  { [industry |-> i, target_audience |-> a, content_goals |-> g] :
      i \in Industries, a \in Audiences, g \in Goals }
Blank(form) == form.industry = "" \/ form.target_audience = "" \/ form.content_goals = ""

\* lines 305-308: a blank field; st.error and return.
MainSubmitBlank(p) ==
  /\ pc[p] = "idle"
  /\ \E form \in FormInputs :
       /\ Blank(form)
       /\ inputs' = [inputs EXCEPT ![p] = form]
  /\ pc' = [pc EXCEPT ![p] = "done"]
  /\ Log(p, "validation_error")
  /\ UNCHANGED << cache, progress_bar, filtered_results, formatted, run_result >>
  /\ SearchLocalsUnchanged
  /\ UNCHANGED filterVars

\* lines 305-328: all fields filled; the progress bar starts at 0 and
\* run_content_calendar_creation is called.
MainSubmit(p) ==
  /\ pc[p] = "idle"
  /\ \E form \in FormInputs :
       /\ ~Blank(form)
       /\ inputs' = [inputs EXCEPT ![p] = form]
  /\ progress_bar' = [progress_bar EXCEPT ![p] = 0]
  /\ pc' = [pc EXCEPT ![p] = "run_start"]
  /\ Log(p, "run_called")
  /\ UNCHANGED << cache, filtered_results, formatted, run_result >>
  /\ SearchLocalsUnchanged
  /\ UNCHANGED filterVars

\* update_progress, lines 318-320, called through progress_callback.
Emit(p, percent, event) ==
  /\ progress_bar' = [progress_bar EXCEPT ![p] = percent]
  /\ Log(p, event)

\* Faulty variant: progress(40) is emitted along with progress(10), before the search.
EmitProgress10And40(p) ==
  /\ pc[p] = "run_start"
  /\ progress_bar' = [progress_bar EXCEPT ![p] = 40]
  /\ events' = [events EXCEPT ![p] = @ \o <<"progress10", "progress40">>]
  /\ pc' = [pc EXCEPT ![p] = "build_queries"]
  /\ UNCHANGED << cache, inputs, filtered_results, formatted, run_result >>
  /\ SearchLocalsUnchanged
  /\ UNCHANGED filterVars

\* lines 165-166
EmitProgress10(p) ==
  /\ pc[p] = "run_start"
  /\ Emit(p, 10, "progress10")
  /\ pc' = [pc EXCEPT ![p] = "build_queries"]
  /\ UNCHANGED << cache, inputs, filtered_results, formatted, run_result >>
  /\ SearchLocalsUnchanged
  /\ UNCHANGED filterVars

\* lines 169-176: the three queries are built and search_web_async is called.
RunCallSearch(p) ==
  /\ pc[p] = "build_queries"
  /\ EnterSearch(p, search_queries(inputs[p].industry, inputs[p].target_audience,
                                   inputs[p].content_goals))
  /\ UNCHANGED << runVars, filterVars >>

\* lines 179-180, once search_web_async has returned.
EmitProgress40(p) ==
  /\ pc[p] = "returned"
  /\ Emit(p, 40, "progress40")
  /\ pc' = [pc EXCEPT ![p] = "filter"]
  /\ UNCHANGED << cache, inputs, filtered_results, formatted, run_result >>
  /\ SearchLocalsUnchanged
  /\ UNCHANGED filterVars

\* lines 183-184: budget the results (default max_tokens) and format them.
FilterAndFormat(p) ==
  /\ pc[p] = "filter"
  /\ LET kept == filter_search_results(search_results[p], default_max_tokens).filtered
     IN /\ filtered_results' = [filtered_results EXCEPT ![p] = kept]
        /\ formatted' =
             [formatted EXCEPT
                ![p] = format_search_results(kept, inputs[p].industry,
                                             inputs[p].target_audience, inputs[p].content_goals)]
  /\ events' = [events EXCEPT ![p] = @ \o <<"filter_returned", "format_returned">>]
  /\ pc' = [pc EXCEPT ![p] = "filtered"]
  /\ UNCHANGED << cache, inputs, progress_bar, run_result >>
  /\ SearchLocalsUnchanged
  /\ UNCHANGED filterVars

\* lines 187-188
EmitProgress60(p) ==
  /\ pc[p] = "filtered"
  /\ Emit(p, 60, "progress60")
  /\ pc' = [pc EXCEPT ![p] = "generate"]
  /\ UNCHANGED << cache, inputs, filtered_results, formatted, run_result >>
  /\ SearchLocalsUnchanged
  /\ UNCHANGED filterVars

\* lines 191-235: the prompt is composed and client.messages.create answers.
GenerateSucceeds(p) ==
  /\ pc[p] = "generate"
  /\ events' = [events EXCEPT ![p] = @ \o <<"generate_called", "generate_returned">>]
  /\ pc' = [pc EXCEPT ![p] = "generated"]
  /\ UNCHANGED << cache, inputs, progress_bar, filtered_results, formatted, run_result >>
  /\ SearchLocalsUnchanged
  /\ UNCHANGED filterVars

\* lines 224-235 raise (network, auth, quota, malformed response); the
\* except of lines 261-262 returns the error string.
GenerateFails(p) ==
  /\ pc[p] = "generate"
  /\ events' = [events EXCEPT ![p] = @ \o <<"generate_called", "generate_failed">>]
  /\ run_result' = [run_result EXCEPT ![p] = ErrorResult]
  /\ pc' = [pc EXCEPT ![p] = "main_result"]
  /\ DropLocals(p)
  /\ UNCHANGED << cache, inputs, progress_bar >>
  /\ UNCHANGED filterVars

\* lines 238-239
EmitProgress100(p) ==
  /\ pc[p] = "generated"
  /\ Emit(p, 100, "progress100")
  /\ pc' = [pc EXCEPT ![p] = "metrics"]
  /\ UNCHANGED << cache, inputs, filtered_results, formatted, run_result >>
  /\ SearchLocalsUnchanged
  /\ UNCHANGED filterVars

\* lines 242-260: the metrics are computed and the record is returned.
RunReturn(p) ==
  /\ pc[p] = "metrics"
  /\ run_result' = [run_result EXCEPT ![p] = RunResult]
  /\ pc' = [pc EXCEPT ![p] = "main_result"]
  /\ Log(p, "run_returned")
  /\ DropLocals(p)
  /\ UNCHANGED << cache, inputs, progress_bar >>
  /\ UNCHANGED filterVars

\* lines 261-262 for an exception that left search_web_async.
RunCatchesSearchError(p) ==
  /\ pc[p] = "raised"
  /\ run_result' = [run_result EXCEPT ![p] = ErrorResult]
  /\ pc' = [pc EXCEPT ![p] = "main_result"]
  /\ Log(p, "search_raised")
  /\ DropLocals(p)
  /\ UNCHANGED << cache, inputs, progress_bar >>
  /\ UNCHANGED filterVars

\* lines 330-362: the result is a record; save_content_calendar writes the
\* artifact file.
MainSave(p) ==
  /\ pc[p] = "main_result"
  /\ main_accepts(run_result[p])
  /\ Log(p, "artifact_written")
  /\ pc' = [pc EXCEPT ![p] = "done"]
  /\ UNCHANGED << cache, runVars, filterVars >>
  /\ SearchLocalsUnchanged

\* lines 364-367: anything else is shown as an error; the bar is set to 100.
MainShowError(p) ==
  /\ pc[p] = "main_result"
  /\ ~main_accepts(run_result[p])
  /\ progress_bar' = [progress_bar EXCEPT ![p] = 100]
  /\ Log(p, "error_shown")
  /\ pc' = [pc EXCEPT ![p] = "done"]
  /\ UNCHANGED << cache, inputs, filtered_results, formatted, run_result, filterVars >>
  /\ SearchLocalsUnchanged

\* The cache directory as earlier runs may have left it: per query no file,
\* a file a writer opened and has not dumped into, or a cached response.
Init ==
  /\ cache \in [CacheFiles -> {AbsentFile, PartialFile, WrittenFile(extract_organic(OrganicResults))}]
  /\ pc = [p \in Procs |-> "idle"]
  /\ InitSearchLocals
  /\ InitRunLocals
  /\ InitFilterIdle

Next ==
  \E p \in Sessions :
    \/ MainSubmitBlank(p)
    \/ MainSubmit(p)
    \/ EmitProgress10(p)
    \/ RunCallSearch(p)
    \/ CacheHit(p)
    \/ CacheLoadFails(p)
    \/ CacheMiss(p)
    \/ FetchAll(p)
    \/ WriteOpen(p)
    \/ WriteDump(p)
    \/ SearchReturn(p)
    \/ EmitProgress40(p)
    \/ FilterAndFormat(p)
    \/ EmitProgress60(p)
    \/ GenerateSucceeds(p)
    \/ GenerateFails(p)
    \/ EmitProgress100(p)
    \/ RunReturn(p)
    \/ RunCatchesSearchError(p)
    \/ MainSave(p)
    \/ MainShowError(p)

Spec == Init /\ [][Next]_vars

\* ---------------------------------------------- properties of the pipeline
Position(p, e) == CHOOSE i \in DOMAIN events[p] : events[p][i] = e
Times(p, e) == Cardinality({ i \in DOMAIN events[p] : events[p][i] = e })
\* e happened and d had happened before it.
After(p, e, d) == Logged(p, e) => Logged(p, d) /\ Position(p, d) < Position(p, e)
\* e happened and d had not happened by then.
Before(p, e, d) == Logged(p, e) /\ Logged(p, d) => Position(p, e) < Position(p, d)

\* C5: when the generation call of a run fails, the run returns the error
\* string, progress(100) is not emitted, the generation call is made once,
\* and main writes no artifact.
C5_GenerationFailureAborts ==
  \A p \in Procs :
    Logged(p, "generate_failed") =>
      /\ run_result[p] = ErrorResult
      /\ ~Logged(p, "progress100")
      /\ Times(p, "generate_called") = 1
      /\ ~Logged(p, "artifact_written")
      /\ ~Logged(p, "run_returned")

\* C5 witness: main has finished a run whose generation call failed.
C5_Witness ==
  \E p \in Procs : pc[p] = "done" /\ Logged(p, "generate_failed") /\ Logged(p, "error_shown")

\* C9 as claimed: progress(10) only after search_web_async has returned,
\* progress(40) and progress(60) only after filter and format have returned
\* and before the generation call, progress(100) only after the generation
\* call has succeeded.
C9_CheckpointClosesItsStage ==
  \A p \in Procs :
    /\ After(p, "progress10", "search_returned")
    /\ After(p, "progress40", "format_returned")
    /\ After(p, "progress60", "format_returned")
    /\ Before(p, "progress60", "generate_called")
    /\ After(p, "progress100", "generate_returned")

\* C9 amended: progress(10) is emitted before search_web_async is called,
\* progress(40) after it has returned and before filter_search_results and
\* format_search_results run, progress(60) after both have returned and
\* before the generation call, progress(100) only after the generation call
\* has succeeded.
C9_CheckpointOrder ==
  \A p \in Procs :
    /\ After(p, "search_called", "progress10")
    /\ After(p, "progress40", "search_returned")
    /\ After(p, "filter_returned", "progress40")
    /\ After(p, "progress60", "format_returned")
    /\ After(p, "generate_called", "progress60")
    /\ After(p, "progress100", "generate_returned")
    /\ \A e \in {"progress10", "progress40", "progress60", "progress100"} : Times(p, e) <= 1

\* C9 witness: a run has emitted all four checkpoints.
C9_Witness ==
  \E p \in Procs :
    /\ Logged(p, "progress10") /\ Logged(p, "progress40")
    /\ Logged(p, "progress60") /\ Logged(p, "progress100")
    /\ Logged(p, "artifact_written")

====
